---- MODULE Spec2Model ----
(***************************************************************************)
(* A model of the two bounded lock-free ring-buffer queues of the          *)
(* repository: SpscQueue (src/spsc_queue.cc) and MpscQueue                 *)
(* (src/mpsc_queue_experimental.cpp), together with the loops of           *)
(* run_benchmark that drive them.                                          *)
(*                                                                         *)
(* Every access to an atomic cursor or to a buffer slot is one step, so    *)
(* that all interleavings of the threads' accesses are explored.  Atomics  *)
(* are modelled as sequentially consistent; the defects found below exist  *)
(* already under that strongest ordering.                                  *)
(*                                                                         *)
(* size_t arithmetic: the model's capacities stay far below SIZE_MAX, so   *)
(* capacity + 1 and (t + 1) never wrap inside the bounds and natural       *)
(* arithmetic coincides with size_t arithmetic.                            *)
(***************************************************************************)
EXTENDS Integers, Sequences, FiniteSets, TLC

\* ------------------------------------------------------------------ bounds
\* Largest capacity passed to a constructor (0 is passed too).
MaxCap == 3
\* Items each benchmark producer enqueues (elems in run_benchmark), SPSC.
SpscElems == 4
\* Items each benchmark producer enqueues (elems in run_benchmark), MPSC.
MpscElems == 2
\* Number of MPSC producer threads (the benchmark starts 3).
MpscProducers == 2
\* Number of calls the single-threaded caller makes.
MaxOps == 8

\* ------------------------------------------------------------------ threads
\* Thread 0 is the consumer thread of the benchmarks; threads 1.. are the
\* producers.  The single-threaded caller is thread 1.
Consumer == 0
Main == 1
Threads == 0 .. MpscProducers
Producers == 1 .. MpscProducers

\* ------------------------------------------------------------------ items
\* An element T carries the id of the thread that enqueued it and the int
\* the benchmark passes (its loop index i).  T() is the value-initialised
\* element every slot holds after construction (int 0, enqueued by nobody).
MkItem(p, v) == <<p, v>>
Value(x) == x[2]
Owner(x) == x[1]
DefaultItem == MkItem(0, 0)

VARIABLES
    kind,           \* "none" before construction, then "spsc" or "mpsc"
    capacity,       \* the constructor's argument
    buffer_,        \* std::vector<T> buffer_, a function on 0 .. size-1
    head_,          \* std::atomic<size_t> head_
    tail_,          \* std::atomic<size_t> tail_
    head_cached_,   \* SpscQueue::head_cached_ (producer side)
    tail_cached_,   \* SpscQueue::tail_cached_ (consumer side)
    pc,             \* per thread: where it is
    t,              \* per thread: enqueue's local t
    next_t,         \* per thread: enqueue's local next_t
    item,           \* per thread: enqueue's argument
    h,              \* dequeue's local h
    data,           \* the caller's out item of dequeue
    first,          \* per thread: the cursor is_empty loaded first
    ret,            \* per thread: what the last call returned
    i,              \* per thread: the loop counter of its benchmark loop
    accepted,       \* history: items of the enqueue calls that returned true
    dequeued,       \* history: items the dequeue calls that returned true gave
    op,             \* single-threaded caller: the call in progress
    pre,            \* single-threaded caller: the state when the call began
    log             \* single-threaded caller: the calls made and their results

vars == <<kind, capacity, buffer_, head_, tail_, head_cached_, tail_cached_,
          pc, t, next_t, item, h, data, first, ret, i, accepted, dequeued,
          op, pre, log>>

queue == <<kind, capacity, buffer_, head_, tail_, head_cached_, tail_cached_>>
locals == <<t, next_t, item, h, data, first>>
history == <<accepted, dequeued>>
caller == <<op, pre, log>>

\* buffer_.size()
Size == capacity + 1

NoCall == [name |-> "none", arg |-> DefaultItem]

Init ==
    /\ kind = "none"
    /\ capacity = 0
    /\ buffer_ = <<>>
    /\ head_ = 0
    /\ tail_ = 0
    /\ head_cached_ = 0
    /\ tail_cached_ = 0
    /\ pc = [self \in Threads |-> "start"]
    /\ t = [self \in Threads |-> 0]
    /\ next_t = [self \in Threads |-> 0]
    /\ item = [self \in Threads |-> DefaultItem]
    /\ h = 0
    /\ data = DefaultItem
    /\ first = [self \in Threads |-> 0]
    /\ ret = [self \in Threads |-> FALSE]
    /\ i = [self \in Threads |-> 0]
    /\ accepted = <<>>
    /\ dequeued = <<>>
    /\ op = NoCall
    /\ pre = <<>>
    /\ log = <<>>

\* ------------------------------------------------------------ construction
\* The constructors' guard `capacity + 1 < 0` on the unsigned size_t.
CapacityRejected(cap) == cap + 1 < 0

\* SpscQueue(size_t capacity) : buffer_(capacity + 1), cursors and mirrors 0.
SpscQueue(cap) ==
    /\ kind = "none"
    /\ IF CapacityRejected(cap)
         THEN /\ kind' = "threw"
              /\ UNCHANGED <<capacity, buffer_>>
         ELSE /\ kind' = "spsc"
              /\ capacity' = cap
              /\ buffer_' = [k \in 0 .. cap |-> DefaultItem]
    /\ UNCHANGED <<head_, tail_, head_cached_, tail_cached_>>
    /\ UNCHANGED <<pc, ret, i>>
    /\ UNCHANGED <<locals, history, caller>>

\* (n & (n - 1)) == 0 for n >= 1: n is a power of two.
IsPowerOfTwo(n) == \E k \in 0 .. n : 2 ^ k = n

\* MpscQueue(size_t capacity) : buffer_(capacity + 1); the pre-touch loop
\* only reads the slots.
MpscQueue(cap) ==
    /\ kind = "none"
    /\ IF CapacityRejected(cap) /\ IsPowerOfTwo(cap + 1)
         THEN /\ kind' = "threw"
              /\ UNCHANGED <<capacity, buffer_>>
         ELSE /\ kind' = "mpsc"
              /\ capacity' = cap
              /\ buffer_' = [k \in 0 .. cap |-> DefaultItem]
    /\ UNCHANGED <<head_, tail_, head_cached_, tail_cached_>>
    /\ UNCHANGED <<pc, ret, i>>
    /\ UNCHANGED <<locals, history, caller>>

\* ------------------------------------------------------- shared arithmetic
\* (x + 1) % buffer_.size()
NextIndex(x) == (x + 1) % Size

\* `return value;` of a queue method: back in the caller.
Return(self, value) ==
    /\ pc' = [pc EXCEPT ![self] = "done"]
    /\ ret' = [ret EXCEPT ![self] = value]

\* A caller's call of a method whose first step is `entry`.
Call(self, entry) == pc' = [pc EXCEPT ![self] = entry]

\* ------------------------------------------------------ SpscQueue::enqueue
\* The producer's first test, against its mirror of head.
SpscMayBeFull(nt) == nt = head_cached_

\* A producer that refreshes its mirror and goes on without testing again.
SpscIsFull_untested(nt, head) == FALSE

\* The producer's second test, against the head it has just loaded.
SpscIsFull(nt, head) == nt = head

\* An enqueue that takes its mirror of head as the truth: full by the mirror
\* is full.
spsc_enqueue_load_trusts(self) ==
    /\ pc[self] = "spsc_enq_load"
    /\ t' = [t EXCEPT ![self] = tail_]
    /\ next_t' = [next_t EXCEPT ![self] = NextIndex(tail_)]
    /\ IF SpscMayBeFull(NextIndex(tail_))
         THEN Return(self, FALSE)
         ELSE pc' = [pc EXCEPT ![self] = "spsc_enq_write"] /\ UNCHANGED ret
    /\ UNCHANGED <<queue, item, h, data, first, i, history, caller>>

\* t = tail_.load(relaxed); next_t = (t + 1) % size; if (next_t == head_cached_)
spsc_enqueue_load(self) ==
    /\ pc[self] = "spsc_enq_load"
    /\ t' = [t EXCEPT ![self] = tail_]
    /\ next_t' = [next_t EXCEPT ![self] = NextIndex(tail_)]
    /\ pc' = [pc EXCEPT ![self] =
                IF SpscMayBeFull(NextIndex(tail_)) THEN "spsc_enq_refresh"
                                                   ELSE "spsc_enq_write"]
    /\ UNCHANGED <<queue, item, h, data, first, ret, i, history, caller>>

\* head_cached_ = head_.load(acquire); if (next_t == head_cached_) return false;
spsc_enqueue_refresh(self) ==
    /\ pc[self] = "spsc_enq_refresh"
    /\ head_cached_' = head_
    /\ IF SpscIsFull(next_t[self], head_)
         THEN Return(self, FALSE)
         ELSE pc' = [pc EXCEPT ![self] = "spsc_enq_write"] /\ UNCHANGED ret
    /\ UNCHANGED <<kind, capacity, buffer_, head_, tail_, tail_cached_>>
    /\ UNCHANGED <<locals, i, history, caller>>

\* An enqueue that writes the item into the slot after the one it publishes.
spsc_enqueue_write_next(self) ==
    /\ pc[self] = "spsc_enq_write"
    /\ buffer_' = [buffer_ EXCEPT ![next_t[self]] = item[self]]
    /\ pc' = [pc EXCEPT ![self] = "spsc_enq_publish"]
    /\ UNCHANGED <<kind, capacity, head_, tail_, head_cached_, tail_cached_>>
    /\ UNCHANGED <<locals, ret, i, history, caller>>

\* buffer_[t] = item;
spsc_enqueue_write(self) ==
    /\ pc[self] = "spsc_enq_write"
    /\ buffer_' = [buffer_ EXCEPT ![t[self]] = item[self]]
    /\ pc' = [pc EXCEPT ![self] = "spsc_enq_publish"]
    /\ UNCHANGED <<kind, capacity, head_, tail_, head_cached_, tail_cached_>>
    /\ UNCHANGED <<locals, ret, i, history, caller>>

\* tail_.store(next_t, release); return true;
spsc_enqueue_publish(self) ==
    /\ pc[self] = "spsc_enq_publish"
    /\ tail_' = next_t[self]
    /\ Return(self, TRUE)
    /\ accepted' = Append(accepted, item[self])
    /\ UNCHANGED <<kind, capacity, buffer_, head_, head_cached_, tail_cached_>>
    /\ UNCHANGED <<locals, i, dequeued, caller>>

\* ------------------------------------------------------ SpscQueue::dequeue
\* A consumer that never takes its mirror of tail as a sign of emptiness.
SpscMayBeEmpty_never(hh) == FALSE

\* The consumer's first test, against its mirror of tail.
SpscMayBeEmpty(hh) == hh = tail_cached_

\* A consumer that refreshes its mirror and goes on without testing again.
SpscIsEmpty_untested(hh, tail) == FALSE

\* An empty test that is off by one: a queue holding one item counts as empty.
SpscIsEmpty_offbyone(hh, tail) == hh = tail \/ (hh + 1) % (capacity + 1) = tail

\* The consumer's second test, against the tail it has just loaded.
SpscIsEmpty(hh, tail) == hh = tail

\* h = head_.load(relaxed); if (h == tail_cached_)
spsc_dequeue_load(self) ==
    /\ pc[self] = "spsc_deq_load"
    /\ h' = head_
    /\ pc' = [pc EXCEPT ![self] =
                IF SpscMayBeEmpty(head_) THEN "spsc_deq_refresh"
                                         ELSE "spsc_deq_read"]
    /\ UNCHANGED <<queue, t, next_t, item, data, first, ret, i, history, caller>>

\* A dequeue that copies the slot into the out item before it knows whether
\* the queue is empty.
spsc_dequeue_refresh_copies(self) ==
    /\ pc[self] = "spsc_deq_refresh"
    /\ tail_cached_' = tail_
    /\ data' = buffer_[h]
    /\ IF SpscIsEmpty(h, tail_)
         THEN Return(self, FALSE)
         ELSE pc' = [pc EXCEPT ![self] = "spsc_deq_read"] /\ UNCHANGED ret
    /\ UNCHANGED <<kind, capacity, buffer_, head_, tail_, head_cached_>>
    /\ UNCHANGED <<t, next_t, item, h, first, i, history, caller>>

\* A dequeue that tests its mirror again without reloading tail_ into it.
spsc_dequeue_refresh_noload(self) ==
    /\ pc[self] = "spsc_deq_refresh"
    /\ IF SpscIsEmpty(h, tail_cached_)
         THEN Return(self, FALSE)
         ELSE pc' = [pc EXCEPT ![self] = "spsc_deq_read"] /\ UNCHANGED ret
    /\ UNCHANGED <<queue, locals, i, history, caller>>

\* tail_cached_ = tail_.load(acquire); if (h == tail_cached_) return false;
spsc_dequeue_refresh(self) ==
    /\ pc[self] = "spsc_deq_refresh"
    /\ tail_cached_' = tail_
    /\ IF SpscIsEmpty(h, tail_)
         THEN Return(self, FALSE)
         ELSE pc' = [pc EXCEPT ![self] = "spsc_deq_read"] /\ UNCHANGED ret
    /\ UNCHANGED <<kind, capacity, buffer_, head_, tail_, head_cached_>>
    /\ UNCHANGED <<locals, i, history, caller>>

\* item = buffer_[h];
spsc_dequeue_read(self) ==
    /\ pc[self] = "spsc_deq_read"
    /\ data' = buffer_[h]
    /\ pc' = [pc EXCEPT ![self] = "spsc_deq_publish"]
    /\ UNCHANGED <<queue, t, next_t, item, h, first, ret, i, history, caller>>

\* A dequeue that publishes the next index through the wrong cursor.
spsc_dequeue_publish_tail(self) ==
    /\ pc[self] = "spsc_deq_publish"
    /\ tail_' = NextIndex(h)
    /\ Return(self, TRUE)
    /\ dequeued' = Append(dequeued, data)
    /\ UNCHANGED <<kind, capacity, buffer_, head_, head_cached_, tail_cached_>>
    /\ UNCHANGED <<locals, i, accepted, caller>>

\* next_h = (h + 1) % size; head_.store(next_h, release); return true;
spsc_dequeue_publish(self) ==
    /\ pc[self] = "spsc_deq_publish"
    /\ head_' = NextIndex(h)
    /\ Return(self, TRUE)
    /\ dequeued' = Append(dequeued, data)
    /\ UNCHANGED <<kind, capacity, buffer_, tail_, head_cached_, tail_cached_>>
    /\ UNCHANGED <<locals, i, accepted, caller>>

\* ------------------------------------------- is_empty (both classes alike)
\* return head_.load(relaxed) == tail_.load(relaxed);  The two loads are
\* unsequenced operands of ==, so either may come first.
is_empty_first(self) ==
    /\ pc[self] = "is_empty"
    /\ \/ first' = [first EXCEPT ![self] = head_]
          /\ pc' = [pc EXCEPT ![self] = "is_empty_tail"]
       \/ first' = [first EXCEPT ![self] = tail_]
          /\ pc' = [pc EXCEPT ![self] = "is_empty_head"]
    /\ UNCHANGED <<queue, t, next_t, item, h, data, ret, i, history, caller>>

\* An is_empty that also refreshes the consumer's mirror of tail.
is_empty_second_refreshes(self) ==
    /\ \/ pc[self] = "is_empty_tail" /\ Return(self, first[self] = tail_)
       \/ pc[self] = "is_empty_head" /\ Return(self, head_ = first[self])
    /\ tail_cached_' = tail_
    /\ UNCHANGED <<kind, capacity, buffer_, head_, tail_, head_cached_>>
    /\ UNCHANGED <<locals, i, history, caller>>

\* An is_empty that compares head with the consumer's mirror of tail.
is_empty_second_mirror(self) ==
    /\ \/ pc[self] = "is_empty_tail" /\ Return(self, first[self] = tail_cached_)
       \/ pc[self] = "is_empty_head" /\ Return(self, head_ = tail_cached_)
    /\ UNCHANGED <<queue, locals, i, history, caller>>

is_empty_second(self) ==
    /\ \/ pc[self] = "is_empty_tail" /\ Return(self, first[self] = tail_)
       \/ pc[self] = "is_empty_head" /\ Return(self, head_ = first[self])
    /\ UNCHANGED <<queue, locals, i, history, caller>>

\* ------------------------------------------------------ MpscQueue::enqueue
\* A full test that is off by one: it reserves two slots instead of one.
MpscIsFull_offbyone(nt, head) == nt = head \/ (nt + 1) % (capacity + 1) = head

\* The full test: next_t == head_.load(acquire)
MpscIsFull(nt, head) == nt = head

\* do { t = tail_.load(acquire); next_t = (t + 1) % size;
mpsc_enqueue_load(self) ==
    /\ pc[self] = "mpsc_enq_load"
    /\ t' = [t EXCEPT ![self] = tail_]
    /\ next_t' = [next_t EXCEPT ![self] = NextIndex(tail_)]
    /\ pc' = [pc EXCEPT ![self] = "mpsc_enq_check"]
    /\ UNCHANGED <<queue, item, h, data, first, ret, i, history, caller>>

\* if (next_t == head_.load(acquire)) return false;
mpsc_enqueue_check(self) ==
    /\ pc[self] = "mpsc_enq_check"
    /\ IF MpscIsFull(next_t[self], head_)
         THEN Return(self, FALSE)
         ELSE pc' = [pc EXCEPT ![self] = "mpsc_enq_cas"] /\ UNCHANGED ret
    /\ UNCHANGED <<queue, locals, i, history, caller>>

\* } while (!tail_.compare_exchange_strong(t, next_t, acq_rel));
\* On failure the exchange stores the value it found into t and the loop
\* starts over.
mpsc_enqueue_cas(self) ==
    /\ pc[self] = "mpsc_enq_cas"
    /\ IF tail_ = t[self]
         THEN /\ tail_' = next_t[self]
              /\ pc' = [pc EXCEPT ![self] = "mpsc_enq_write"]
              /\ UNCHANGED t
         ELSE /\ t' = [t EXCEPT ![self] = tail_]
              /\ pc' = [pc EXCEPT ![self] = "mpsc_enq_load"]
              /\ UNCHANGED tail_
    /\ UNCHANGED <<kind, capacity, buffer_, head_, head_cached_, tail_cached_>>
    /\ UNCHANGED <<next_t, item, h, data, first, ret, i, history, caller>>

\* buffer_[t] = item; return true;
mpsc_enqueue_write(self) ==
    /\ pc[self] = "mpsc_enq_write"
    /\ buffer_' = [buffer_ EXCEPT ![t[self]] = item[self]]
    /\ Return(self, TRUE)
    /\ accepted' = Append(accepted, item[self])
    /\ UNCHANGED <<kind, capacity, head_, tail_, head_cached_, tail_cached_>>
    /\ UNCHANGED <<locals, i, dequeued, caller>>

\* ------------------------------------------------------ MpscQueue::dequeue
\* An empty test with the comparison inverted.
MpscIsEmpty_inverted(hh, tail) == hh # tail

\* The empty test: h == tail_.load(acquire)
MpscIsEmpty(hh, tail) == hh = tail

\* h = head_.load(relaxed);
mpsc_dequeue_load(self) ==
    /\ pc[self] = "mpsc_deq_load"
    /\ h' = head_
    /\ pc' = [pc EXCEPT ![self] = "mpsc_deq_check"]
    /\ UNCHANGED <<queue, t, next_t, item, data, first, ret, i, history, caller>>

\* if (h == tail_.load(acquire)) return false;
mpsc_dequeue_check(self) ==
    /\ pc[self] = "mpsc_deq_check"
    /\ IF MpscIsEmpty(h, tail_)
         THEN Return(self, FALSE)
         ELSE pc' = [pc EXCEPT ![self] = "mpsc_deq_read"] /\ UNCHANGED ret
    /\ UNCHANGED <<queue, locals, i, history, caller>>

\* item = buffer_[h];
mpsc_dequeue_read(self) ==
    /\ pc[self] = "mpsc_deq_read"
    /\ data' = buffer_[h]
    /\ pc' = [pc EXCEPT ![self] = "mpsc_deq_publish"]
    /\ UNCHANGED <<queue, t, next_t, item, h, first, ret, i, history, caller>>

\* next_h = (h + 1) % size; head_.store(next_h, seq_cst); return true;
mpsc_dequeue_publish(self) ==
    /\ pc[self] = "mpsc_deq_publish"
    /\ head_' = NextIndex(h)
    /\ Return(self, TRUE)
    /\ dequeued' = Append(dequeued, data)
    /\ UNCHANGED <<kind, capacity, buffer_, tail_, head_cached_, tail_cached_>>
    /\ UNCHANGED <<locals, i, accepted, caller>>

\* ------------------------------------------ run_benchmark of spsc_queue.cc
\* exit(EXIT_FAILURE) was called: the process is gone.
Exited == pc[Consumer] = "exit_failure"

\* The producer, on the main thread:
\*   for (i = 0; i < elems; i++) { while (!q.enqueue(i)) {} }
\*   while (!q.is_empty()) {}
\* One step takes the result of the call that returned and makes the next.
spsc_producer(self) ==
    /\ kind = "spsc"
    /\ ~Exited
    /\ pc[self] \in {"start", "done"}
    /\ LET n == IF pc[self] = "done" /\ i[self] < SpscElems /\ ret[self]
                  THEN i[self] + 1 ELSE i[self]
           drained == pc[self] = "done" /\ i[self] = SpscElems /\ ret[self]
       IN /\ i' = [i EXCEPT ![self] = n]
          /\ IF n < SpscElems
               THEN /\ item' = [item EXCEPT ![self] = MkItem(self, n)]
                    /\ Call(self, "spsc_enq_load")
               ELSE /\ item' = item
                    /\ IF drained THEN pc' = [pc EXCEPT ![self] = "stop"]
                                  ELSE Call(self, "is_empty")
    /\ UNCHANGED <<queue, t, next_t, h, data, first, ret, history, caller>>

\* The consumer thread:
\*   for (i = 0; i < elems; i++) { int data = 0; while (!q.dequeue(data)) {}
\*     if (data != i) exit(EXIT_FAILURE); }
spsc_consumer(self) ==
    /\ kind = "spsc"
    /\ pc[self] \in {"start", "done"}
    /\ LET got == pc[self] = "done" /\ ret[self]
           n == IF got THEN i[self] + 1 ELSE i[self]
       IN IF got /\ Value(data) # i[self]
            THEN /\ pc' = [pc EXCEPT ![self] = "exit_failure"]
                 /\ UNCHANGED <<i, data>>
            ELSE /\ i' = [i EXCEPT ![self] = n]
                 /\ IF n < SpscElems
                      THEN /\ data' = IF got \/ pc[self] = "start"
                                        THEN MkItem(0, 0) ELSE data
                           /\ Call(self, "spsc_deq_load")
                      ELSE /\ data' = data
                           /\ pc' = [pc EXCEPT ![self] = "joined"]
    /\ UNCHANGED <<queue, t, next_t, item, h, first, ret, history, caller>>

\* ------------------------------ run_benchmark of mpsc_queue_experimental.cpp
\* Each producer thread: for (i = 0; i < elems; i++) { while (!q.enqueue(i)) {} }
mpsc_producer(self) ==
    /\ kind = "mpsc"
    /\ pc[self] \in {"start", "done"}
    /\ LET n == IF pc[self] = "done" /\ ret[self] THEN i[self] + 1 ELSE i[self]
       IN /\ i' = [i EXCEPT ![self] = n]
          /\ IF n < MpscElems
               THEN /\ item' = [item EXCEPT ![self] = MkItem(self, n)]
                    /\ Call(self, "mpsc_enq_load")
               ELSE /\ item' = item
                    /\ pc' = [pc EXCEPT ![self] = "joined"]
    /\ UNCHANGED <<queue, t, next_t, h, data, first, ret, history, caller>>

\* The consumer thread:
\*   for (i = 0; i < consumers*elems; i++) { int data = 99;
\*     while (!q.dequeue(data)) {}  consumed_elems[data] += 1; }
mpsc_consumer(self) ==
    /\ kind = "mpsc"
    /\ pc[self] \in {"start", "done"}
    /\ LET got == pc[self] = "done" /\ ret[self]
           n == IF got THEN i[self] + 1 ELSE i[self]
       IN /\ i' = [i EXCEPT ![self] = n]
          /\ IF n < MpscProducers * MpscElems
               THEN /\ data' = IF got \/ pc[self] = "start"
                                 THEN MkItem(0, 99) ELSE data
                    /\ Call(self, "mpsc_deq_load")
               ELSE /\ data' = data
                    /\ pc' = [pc EXCEPT ![self] = "joined"]
    /\ UNCHANGED <<queue, t, next_t, item, h, first, ret, history, caller>>

\* consumed_elems[v] after the joins: how often the consumer received v.
consumed_elems(v) ==
    Cardinality({k \in 1 .. Len(dequeued) : Value(dequeued[k]) = v})

\* ------------------------------------------------- a single-threaded caller
\* What a call can change: the queue's fields and the caller's out item.
Snapshot == <<head_, tail_, buffer_, head_cached_, tail_cached_, data>>

\* The first step of method `name` of the class that was constructed.
Entry(name) ==
    IF name = "is_empty" THEN "is_empty"
    ELSE IF kind = "spsc"
           THEN (IF name = "enqueue" THEN "spsc_enq_load" ELSE "spsc_deq_load")
           ELSE (IF name = "enqueue" THEN "mpsc_enq_load" ELSE "mpsc_deq_load")

\* One thread calls enqueue, dequeue and is_empty in any order; each call
\* runs to its return before the next is made.  The k-th call, when it is an
\* enqueue, passes the item k.
SeqCall(name) ==
    /\ kind \in {"spsc", "mpsc"}
    /\ pc[Main] \in {"start", "idle"}
    /\ Len(log) < MaxOps
    /\ LET arg == IF name = "enqueue" THEN MkItem(Main, Len(log) + 1)
                                      ELSE DefaultItem
       IN /\ op' = [name |-> name, arg |-> arg]
          /\ item' = [item EXCEPT ![Main] = arg]
    /\ pre' = Snapshot
    /\ Call(Main, Entry(name))
    /\ UNCHANGED <<queue, t, next_t, h, data, first, ret, i, history, log>>

SeqReturn ==
    /\ pc[Main] = "done"
    /\ log' = Append(log, [name |-> op.name, arg |-> op.arg,
                           ret |-> ret[Main], out |-> data])
    /\ pc' = [pc EXCEPT ![Main] = "idle"]
    /\ UNCHANGED <<queue, locals, ret, i, history, op, pre>>

\* ----------------------------------------------------------- specifications
Capacities == 0 .. MaxCap

\* Single-threaded use of either queue.
Next ==
    \/ \E cap \in Capacities : SpscQueue(cap)
    \/ \E cap \in Capacities : MpscQueue(cap)
    \/ \E name \in {"enqueue", "dequeue", "is_empty"} : SeqCall(name)
    \/ SeqReturn
    \/ spsc_enqueue_load(Main)
    \/ spsc_enqueue_refresh(Main)
    \/ spsc_enqueue_write(Main)
    \/ spsc_enqueue_publish(Main)
    \/ spsc_dequeue_load(Main)
    \/ spsc_dequeue_refresh(Main)
    \/ spsc_dequeue_read(Main)
    \/ spsc_dequeue_publish(Main)
    \/ mpsc_enqueue_load(Main)
    \/ mpsc_enqueue_check(Main)
    \/ mpsc_enqueue_cas(Main)
    \/ mpsc_enqueue_write(Main)
    \/ mpsc_dequeue_load(Main)
    \/ mpsc_dequeue_check(Main)
    \/ mpsc_dequeue_read(Main)
    \/ mpsc_dequeue_publish(Main)
    \/ is_empty_first(Main)
    \/ is_empty_second(Main)

Spec == Init /\ [][Next]_vars

\* The SPSC benchmark: one producer thread, one consumer thread.
NextSpsc ==
    \/ \E cap \in Capacities : SpscQueue(cap)
    \/ spsc_producer(Main)
    \/ spsc_consumer(Consumer)
    \/ spsc_enqueue_load(Main)
    \/ spsc_enqueue_refresh(Main)
    \/ spsc_enqueue_write(Main)
    \/ spsc_enqueue_publish(Main)
    \/ spsc_dequeue_load(Consumer)
    \/ spsc_dequeue_refresh(Consumer)
    \/ spsc_dequeue_read(Consumer)
    \/ spsc_dequeue_publish(Consumer)
    \/ is_empty_first(Main)
    \/ is_empty_second(Main)

SpecSpsc == Init /\ [][NextSpsc]_vars

\* The MPSC benchmark: MpscProducers producer threads, one consumer thread.
\* (The main thread's poll of is_empty() at line 183 writes nothing the other
\* threads read and is left to the single-threaded specification.)
NextMpsc ==
    \/ \E cap \in Capacities : MpscQueue(cap)
    \/ \E self \in Producers : mpsc_producer(self)
    \/ mpsc_consumer(Consumer)
    \/ \E self \in Producers : mpsc_enqueue_load(self)
    \/ \E self \in Producers : mpsc_enqueue_check(self)
    \/ \E self \in Producers : mpsc_enqueue_cas(self)
    \/ \E self \in Producers : mpsc_enqueue_write(self)
    \/ mpsc_dequeue_load(Consumer)
    \/ mpsc_dequeue_check(Consumer)
    \/ mpsc_dequeue_read(Consumer)
    \/ mpsc_dequeue_publish(Consumer)

SpecMpsc == Init /\ [][NextMpsc]_vars

\* The benchmarks' threads are operating-system threads pinned to CPUs of
\* their own: each of them keeps taking steps (weak fairness per thread).
SpscProducerStep ==
    \/ spsc_producer(Main)
    \/ spsc_enqueue_load(Main)
    \/ spsc_enqueue_refresh(Main)
    \/ spsc_enqueue_write(Main)
    \/ spsc_enqueue_publish(Main)
    \/ is_empty_first(Main)
    \/ is_empty_second(Main)

SpscConsumerStep ==
    \/ spsc_consumer(Consumer)
    \/ spsc_dequeue_load(Consumer)
    \/ spsc_dequeue_refresh(Consumer)
    \/ spsc_dequeue_read(Consumer)
    \/ spsc_dequeue_publish(Consumer)

FairSpecSpsc ==
    /\ SpecSpsc
    /\ WF_vars(SpscProducerStep)
    /\ WF_vars(SpscConsumerStep)

MpscProducerStep(self) ==
    \/ mpsc_producer(self)
    \/ mpsc_enqueue_load(self)
    \/ mpsc_enqueue_check(self)
    \/ mpsc_enqueue_cas(self)
    \/ mpsc_enqueue_write(self)

MpscConsumerStep ==
    \/ mpsc_consumer(Consumer)
    \/ mpsc_dequeue_load(Consumer)
    \/ mpsc_dequeue_check(Consumer)
    \/ mpsc_dequeue_read(Consumer)
    \/ mpsc_dequeue_publish(Consumer)

FairSpecMpsc ==
    /\ SpecMpsc
    /\ \A self \in Producers : WF_vars(MpscProducerStep(self))
    /\ WF_vars(MpscConsumerStep)

\* Both benchmarks: whichever queue is constructed, its threads run.
NextBoth == NextSpsc \/ NextMpsc

SpecBoth == Init /\ [][NextBoth]_vars

\* ================================================================== claims
IsPrefix(a, b) == Len(a) <= Len(b) /\ \A k \in 1 .. Len(a) : a[k] = b[k]

\* The items the SPSC producer passes, in the order it passes them.
SpscProduced == [k \in 1 .. SpscElems |-> MkItem(Main, k - 1)]

\* C1: SPSC strict FIFO.  With one producer and one consumer, at every moment
\* of every interleaving the items the successful dequeues returned are a
\* prefix of the items the successful enqueues accepted, which are in turn the
\* items the producer passed, in order; the benchmark's own test data != i
\* never fires.
C1_SpscFifo ==
    kind = "spsc" =>
        /\ IsPrefix(dequeued, accepted)
        /\ IsPrefix(accepted, SpscProduced)
        /\ ~Exited

\* C1's case: more items than the capacity went through a queue of capacity
\* >= 1, and all of them were dequeued.
C1_Witness ==
    /\ kind = "spsc"
    /\ capacity >= 1
    /\ Len(dequeued) = SpscElems
    /\ SpscElems > capacity
    /\ pc[Consumer] = "joined"

\* A producer holds a claim on slot k that it has not yet written: it won
\* the compare-and-exchange on tail_ with t = k and has not stored its item.
PendingClaim(p, k) == pc[p] = "mpsc_enq_write" /\ t[p] = k

\* C2: MPSC exactly-once delivery.  Once the consumer has made
\* MpscProducers * MpscElems successful dequeues, it has received every value
\* 0 .. MpscElems-1 exactly MpscProducers times (the test run_benchmark makes
\* on consumed_elems after the joins).
C2_MpscExactlyOnce ==
    (kind = "mpsc" /\ Len(dequeued) = MpscProducers * MpscElems) =>
        \A v \in 0 .. MpscElems - 1 : consumed_elems(v) = MpscProducers

\* C3: MPSC dequeue never reads a slot whose write has not completed: no
\* step in which the consumer reads buffer_[h] is taken while a producer
\* holds a claim on h that it has not yet written.
C3_NoReadBeforeWrite ==
    [][mpsc_dequeue_read(Consumer) =>
          \A p \in Producers : ~PendingClaim(p, h)]_vars

\* C4: MPSC per-producer FIFO.  The items of one producer appear among the
\* dequeued items in the order in which that producer's enqueues were
\* accepted (producer p's k-th accepted item has value k-1): a later item of
\* p is never dequeued before an earlier one.
C4_MpscPerProducerFifo ==
    kind = "mpsc" =>
        \A k, l \in 1 .. Len(dequeued) :
            (k < l /\ Owner(dequeued[k]) = Owner(dequeued[l])
                   /\ Owner(dequeued[k]) \in Producers)
                => Value(dequeued[k]) <= Value(dequeued[l])

\* C5: MPSC slot exclusivity.  No two producers hold, at the same time, a
\* claim not yet written on the same slot index.
C5_MpscSlotExclusive ==
    \A p, q \in Producers :
        \A k \in DOMAIN buffer_ :
            (PendingClaim(p, k) /\ PendingClaim(q, k)) => p = q

\* ---------------------------------------------------- single-threaded claims
Live == kind \in {"spsc", "mpsc"}

\* C6: rejection leaves all state unchanged.  When an enqueue or a dequeue
\* call of either queue has returned false, head, tail, every slot, both
\* cached mirrors and the caller's out item have the values they had when the
\* call began.
C6_RejectionUnchanged ==
    (Live /\ pc[Main] = "done" /\ op.name \in {"enqueue", "dequeue"}
          /\ ~ret[Main])
        => Snapshot = pre

\* C6's case: on a queue that has carried items, a dequeue was rejected after
\* the SPSC consumer refreshed its mirror of tail.
C6_Witness ==
    /\ kind = "spsc" /\ capacity >= 1
    /\ pc[Main] = "done" /\ op.name = "dequeue" /\ ~ret[Main]
    /\ Len(dequeued) >= 1
    /\ data # buffer_[h]

\* C7: construction with capacity 0 fails, so every instance that exists has
\* capacity >= 1 and a buffer of capacity + 1 >= 2 slots.
C7_CapacityValidated ==
    Live => capacity >= 1 /\ Cardinality(DOMAIN buffer_) >= 2

\* The calls 1 .. k made so far are the first k of: capacity + 1 enqueues,
\* then capacity + 1 dequeues.
FillThenDrain(k) ==
    /\ k <= 2 * capacity + 2
    /\ \A j \in 1 .. k :
          log[j].name = IF j <= capacity + 1 THEN "enqueue" ELSE "dequeue"

\* C8: exact capacity.  On a fresh queue of capacity C >= 1 the first C
\* enqueues return true and the (C+1)-th false; the next C dequeues return
\* true and give the C accepted items in order; the dequeue after them
\* returns false.
C8_ExactCapacity ==
    (Live /\ capacity >= 1) =>
        \A k \in 1 .. Len(log) :
            FillThenDrain(k) =>
                /\ log[k].ret = (k <= capacity
                                 \/ (capacity + 2 <= k /\ k <= 2 * capacity + 1))
                /\ (capacity + 2 <= k /\ k <= 2 * capacity + 1)
                      => log[k].out = log[k - (capacity + 1)].arg

\* C8's case: the whole scenario was run on a queue of capacity >= 2.
C8_Witness ==
    /\ Live /\ capacity >= 2
    /\ Len(log) = 2 * capacity + 2
    /\ FillThenDrain(Len(log))

\* A reference bounded FIFO of capacity `capacity`: its contents after the
\* first k calls of the log.
RECURSIVE RefContents(_)
RefContents(k) ==
    IF k = 0 THEN <<>>
    ELSE LET q == RefContents(k - 1)
             c == log[k]
         IN IF c.name = "enqueue" /\ Len(q) < capacity THEN Append(q, c.arg)
            ELSE IF c.name = "dequeue" /\ Len(q) > 0 THEN Tail(q)
            ELSE q

\* What the reference FIFO returns for the k-th call of the log.
RefRet(k) ==
    LET q == RefContents(k - 1)
    IN IF log[k].name = "enqueue" THEN Len(q) < capacity
       ELSE IF log[k].name = "dequeue" THEN Len(q) > 0
       ELSE Len(q) = 0

\* C9: wrap-around correctness.  Under single-threaded use every call on
\* either queue of capacity C >= 1 returns the boolean, and every successful
\* dequeue the item, that a reference bounded FIFO of capacity C returns.
C9_MatchesReferenceFifo ==
    (Live /\ capacity >= 1) =>
        \A k \in 1 .. Len(log) :
            /\ log[k].ret = RefRet(k)
            /\ (log[k].name = "dequeue" /\ log[k].ret)
                  => log[k].out = Head(RefContents(k - 1))

\* C9's case: so many items went through that head and tail have each
\* wrapped past the end of the array twice.
C9_Witness ==
    /\ Live /\ capacity >= 1
    /\ pc[Main] = "idle"
    /\ Len(dequeued) >= 2 * (capacity + 1)

\* C10: initially empty.  For capacity C >= 1, right after construction
\* head = tail = 0, and as long as no enqueue has been called every
\* is_empty() returns true and every dequeue returns false.
C10_InitiallyEmpty ==
    (Live /\ capacity >= 1) =>
        /\ (log = <<>> /\ pc[Main] = "start") => (head_ = 0 /\ tail_ = 0)
        /\ \A k \in 1 .. Len(log) :
              (\A j \in 1 .. k : log[j].name # "enqueue") =>
                  log[k].ret = (log[k].name = "is_empty")

\* C10's case: on a fresh queue is_empty() and then dequeue were called.
C10_Witness ==
    /\ kind = "mpsc" /\ capacity >= 1
    /\ Len(log) = 2
    /\ log[1].name = "is_empty" /\ log[2].name = "dequeue"

\* ------------------------------------------------------------ later claims
\* Where a thread is while it executes enqueue, dequeue, is_empty.
EnqueuePcs == {"spsc_enq_load", "spsc_enq_refresh", "spsc_enq_write",
               "spsc_enq_publish", "mpsc_enq_load", "mpsc_enq_check",
               "mpsc_enq_cas", "mpsc_enq_write"}
DequeuePcs == {"spsc_deq_load", "spsc_deq_refresh", "spsc_deq_read",
               "spsc_deq_publish", "mpsc_deq_load", "mpsc_deq_check",
               "mpsc_deq_read", "mpsc_deq_publish"}
IsEmptyPcs == {"is_empty", "is_empty_tail", "is_empty_head"}

\* Thread self takes the step (every step moves its thread's pc).
Stepped(self) == pc'[self] # pc[self]

\* C11: cursor ownership.  In both queues and every interleaving, no step of
\* enqueue changes head_ and no step of dequeue or is_empty changes tail_;
\* head_ changes only in a step of the consumer's dequeue and tail_ only in
\* a step of a producer's enqueue.
C11_CursorOwnership ==
    [][/\ \A self \in Threads :
             Stepped(self) =>
                 /\ pc[self] \in EnqueuePcs => head_' = head_
                 /\ pc[self] \in DequeuePcs \cup IsEmptyPcs => tail_' = tail_
       /\ head_' # head_ => (pc[Consumer] \in DequeuePcs /\ Stepped(Consumer))
       /\ tail_' # tail_ =>
             \E p \in Producers : pc[p] \in EnqueuePcs /\ Stepped(p)]_vars

\* C11's case: both cursors have moved and a producer is inside enqueue
\* while the consumer is inside dequeue.
C11_Witness ==
    /\ Live
    /\ head_ # 0 /\ tail_ # 0
    /\ pc[Main] \in EnqueuePcs
    /\ pc[Consumer] \in DequeuePcs

\* C12: is_empty() is idempotent and pure.  In either queue two consecutive
\* is_empty() calls return the same value, and when an is_empty() call has
\* returned, head_, tail_, every slot and both mirrors (and the out item)
\* have the values they had when the call began.
C12_IsEmptyPure ==
    Live =>
        /\ \A k \in 1 .. Len(log) - 1 :
              (log[k].name = "is_empty" /\ log[k + 1].name = "is_empty")
                  => log[k].ret = log[k + 1].ret
        /\ (pc[Main] = "done" /\ op.name = "is_empty") => Snapshot = pre

\* C12's case: is_empty() was called twice in a row on a queue holding an
\* item, and a third call has just returned.
C12_Witness ==
    /\ Live /\ capacity >= 1
    /\ Len(log) >= 3
    /\ log[1].name = "enqueue"
    /\ log[2].name = "is_empty" /\ log[3].name = "is_empty" /\ ~log[3].ret
    /\ pc[Main] = "done" /\ op.name = "is_empty"

\* C13: MPSC never overfills.  An enqueue wins its compare-and-exchange only
\* when the queue is not full at that instant: no winning exchange sets tail_
\* equal to the current head_.
C13_MpscNeverOverfills ==
    [][\A p \in Producers :
          (pc[p] = "mpsc_enq_cas" /\ Stepped(p) /\ tail_' # tail_)
              => tail_' # head_]_vars

\* Items whose tail publication has happened and whose head publication has
\* not.
Occupancy == Len(accepted) - Len(dequeued)

\* C14: SPSC occupancy.  In every reachable state of the SPSC queue both
\* cursors are inside the array, and the number of items published and not
\* yet consumed equals (tail - head) mod length; it is 0 exactly when
\* head = tail, the capacity exactly when (tail + 1) mod length = head, and
\* never more than the capacity.
C14_SpscOccupancy ==
    kind = "spsc" =>
        /\ head_ \in 0 .. Size - 1
        /\ tail_ \in 0 .. Size - 1
        /\ Occupancy = (tail_ - head_) % Size
        /\ Occupancy = 0 <=> head_ = tail_
        /\ Occupancy = capacity <=> NextIndex(tail_) = head_
        /\ Occupancy <= capacity

\* C14's case: a full queue of capacity >= 2 whose tail has wrapped.
C14_Witness ==
    /\ kind = "spsc" /\ capacity >= 2
    /\ Occupancy = capacity
    /\ tail_ < head_

\* C15: SPSC publication order.  In every reachable state each index of the
\* circular range [head, tail) holds the item whose enqueue was accepted at
\* that position: the j-th slot after head_ holds the j-th accepted item that
\* has not been dequeued.
C15_SpscPublishedSlots ==
    kind = "spsc" =>
        \A j \in 1 .. Occupancy :
            buffer_[(head_ + j - 1) % Size] = accepted[Len(dequeued) + j]

\* C15's case: with an item published and unread, the producer has written
\* the last slot of the array and is about to publish a tail that wraps to 0.
C15_Witness ==
    /\ kind = "spsc" /\ capacity >= 2
    /\ Occupancy >= 1
    /\ pc[Main] = "spsc_enq_publish"
    /\ next_t[Main] = 0
    /\ buffer_[t[Main]] = item[Main]

\* Index k lies in the circular range [head_, tail_) of the real cursors.
InRange(k) == (k - head_) % Size < (tail_ - head_) % Size

\* C16: SPSC slot access stays in range.  Whenever dequeue is about to read
\* buffer_[h], h lies in [head_, tail_); whenever enqueue is about to write
\* buffer_[t], t lies outside it; so the two never access the same slot at
\* the same time.
C16_SpscAccessInRange ==
    kind = "spsc" =>
        /\ pc[Consumer] = "spsc_deq_read" => InRange(h)
        /\ pc[Main] = "spsc_enq_write" => ~InRange(t[Main])
        /\ (pc[Consumer] = "spsc_deq_read" /\ pc[Main] = "spsc_enq_write")
              => h # t[Main]

\* C16's case: both threads are at their slot access, the producer with a
\* mirror of head that is stale.
C16_Witness ==
    /\ kind = "spsc"
    /\ pc[Consumer] = "spsc_deq_read"
    /\ pc[Main] = "spsc_enq_write"
    /\ head_cached_ # head_

\* C17: the mirrors are never a source of truth.  Every decision a call
\* takes is one the queue without mirrors, loading the real peer cursor at
\* that step, takes too: enqueue goes on to write only when the real head_
\* differs from (tail + 1) mod length and returns false only when it is
\* equal; dequeue goes on to read only when the real tail_ differs from head
\* and returns false only when it is equal.
C17_SpscMirrorsNotTruth ==
    [][/\ (pc[Main] \in {"spsc_enq_load", "spsc_enq_refresh"} /\ Stepped(Main))
             => /\ pc'[Main] = "spsc_enq_write" => NextIndex(tail_) # head_
                /\ pc'[Main] = "done" => (~ret'[Main] /\ NextIndex(tail_) = head_)
       /\ (pc[Consumer] \in {"spsc_deq_load", "spsc_deq_refresh"}
              /\ Stepped(Consumer))
             => /\ pc'[Consumer] = "spsc_deq_read" => head_ # tail_
                /\ pc'[Consumer] = "done" => (~ret'[Consumer] /\ head_ = tail_)
      ]_vars

\* C17's case: an enqueue was rejected on a queue that has wrapped, while
\* the consumer's mirror of tail is stale.
C17_Witness ==
    /\ kind = "spsc" /\ capacity >= 1
    /\ pc[Main] = "done" /\ ~ret[Main] /\ i[Main] < SpscElems
    /\ Len(dequeued) >= capacity + 1
    /\ tail_cached_ # tail_

\* Every loop of the MPSC benchmark has finished.
MpscAllJoined ==
    /\ pc[Consumer] = "joined"
    /\ \A p \in Producers : pc[p] = "joined"

\* C18: MPSC caller loops terminate.  Under weak fairness of every thread,
\* for every capacity >= 1, the MpscProducers producer loops and the consumer
\* loop all eventually finish.
C18_MpscLoopsTerminate ==
    (kind = "mpsc" /\ capacity >= 1) ~> MpscAllJoined

\* Both loops of the SPSC benchmark have finished and the producer's poll of
\* is_empty() has returned true.
SpscAllDone == pc[Main] = "stop" /\ pc[Consumer] = "joined"

\* C19: SPSC caller loops terminate.  Under weak fairness of both threads,
\* for every capacity >= 1, both loops eventually finish, the producer's
\* is_empty() poll eventually returns true, and the queue is then empty for
\* good.
C19_SpscLoopsTerminate ==
    /\ (kind = "spsc" /\ capacity >= 1) ~> SpscAllDone
    /\ (kind = "spsc" /\ capacity >= 1) ~> [](head_ = tail_)

\* C19's case: more items than the capacity went through and everything has
\* finished.
C19_Witness ==
    /\ kind = "spsc" /\ capacity >= 1 /\ capacity < SpscElems
    /\ SpscAllDone
    /\ ret[Main]

\* Slot reads the consumer has completed.
SlotsRead ==
    Len(dequeued) + (IF pc[Consumer] = "spsc_deq_publish" THEN 1 ELSE 0)

\* C20: is_empty() as drain signal.  Once the producer has had its last
\* enqueue accepted, an is_empty() call of its that returns true implies
\* that the consumer has read every accepted item out of its slot.
C20_IsEmptyMeansDrained ==
    (kind = "spsc" /\ i[Main] = SpscElems /\ pc[Main] \in {"done", "stop"}
                   /\ ret[Main])
        => SlotsRead = SpscElems

\* C20's case: is_empty() has just returned true to the producer while the
\* consumer has not yet left its loop.
C20_Witness ==
    /\ kind = "spsc" /\ capacity >= 1
    /\ i[Main] = SpscElems /\ pc[Main] = "done" /\ ret[Main]
    /\ pc[Consumer] # "joined"

====
